---- MODULE Spec2Model ----
(***************************************************************************)
(* A model of the Sudoku web app: the game session with its undo/redo      *)
(* history (App), the grid utilities (utils/sudoku.ts) and the puzzle      *)
(* carver of the pack generation script.                                   *)
(*                                                                         *)
(* JavaScript values are represented as follows.  A string is a sequence   *)
(* of one-character strings.  An array is a function on 0..length-1, so    *)
(* that indices are the source's.  null in a cell of entries is `null'     *)
(* (0, a value parseGrid never produces), a null `selected' is NoSelection,*)
(* a null session is NullSession.  A notes array, which the code keeps     *)
(* sorted and duplicate-free, is the set of its digits.                    *)
(***************************************************************************)
EXTENDS Integers, Sequences, FiniteSets, TLC

VARIABLES
    screen,      \* App: useState<Screen>
    session,     \* App: useState<GameSession | null>
    lastOp,      \* what the handler that ran last did to the history (see Last)
    editLog,     \* the pre-edit snapshots of the edits made since the session
                 \* started, while no undo or redo has run (see Track)
    grid,        \* the argument of the last computeConflicts call
    conflicts,   \* its result
    carveArgs,   \* the arguments of the last carve call
    carveOut,    \* its result
    rngState,    \* the generator state that call left behind
    firstCall,   \* the arguments and the result of the first carve call
    markedBy,    \* the cells each of computeConflicts' three loops marked
    carveIndices,\* carve's array indices as its shuffle loop left it
    parseArg,    \* the argument of the last parseGrid call
    parseOut,    \* what it returned, or the error it threw
    fallbackArgs,\* the arguments of the last generateFallback call
    fallbackOut, \* its result
    pc,          \* main: where the script is in its loop over the difficulties
    difficultyIndex, \* main: the position of the loop in its list
    items,       \* generateWithEngine: the records accepted so far
    generated,   \* generateWithEngine: what getSudoku returned last
    puzzles,     \* main: the pack to write
    written,     \* the files written, by difficulty
    attempt      \* for each difficulty, what its engine attempt did (see Noted)

vars == <<screen, session, lastOp, editLog,
          grid, conflicts, carveArgs, carveOut, rngState, firstCall,
          markedBy, carveIndices, parseArg, parseOut, fallbackArgs, fallbackOut,
          pc, difficultyIndex, items, generated, puzzles, written, attempt>>

sessionVars == <<screen, session, lastOp, editLog>>
conflictVars == <<grid, conflicts, markedBy>>
carveVars == <<carveArgs, carveOut, rngState, firstCall, carveIndices>>
parseVars == <<parseArg, parseOut>>
fallbackVars == <<fallbackArgs, fallbackOut>>
mainVars == <<pc, difficultyIndex, items, generated, puzzles, written, attempt>>

----------------------------------------------------------------------------
(* Bounds of the model *)

\* The depth of the undo stack.  The source's literal is 200
\* (draft.undo.length > 200); the model scales it down so that eviction and
\* a full stack happen within the explored states.  Every formula is
\* stated in terms of UNDO_LIMIT.
UNDO_LIMIT == 2

\* editLog follows at most this many edits past UNDO_LIMIT.
MaxOverflow == 2

\* The clock stops counting at this many seconds.
MaxSeconds == 1

\* The cells the selection visits, by click or by arrow key: the blank cell
\* of the puzzles below and the given under it.
ClickCells == {0, 9}

\* The difficulties the user starts a game with.
StartChoices == {"easy"}

\* The grids computeConflicts is called with hold any values of PlaceDigits in
\* the cells of PlaceCells, or at most MaxFilled values anywhere on the board.
MaxFilled == 2
PlaceCells == {0, 1, 2, 8, 10, 72, 40}
PlaceDigits == {1, 2}

\* The arguments carve is called with: the first two known solutions, no
\* blank, the blanks of a hard puzzle or all 81, and as seed the first or the
\* last seed generateFallback uses or the seed whose first draw is 2^32 - 1.
CarveSolutions == {1, 2}
CarveBlanks == {0, 54, 81}
CarveSeeds == {11, 50, 653637408}

\* The digits the user types or presses on the digit pad.
KeyDigits == {3, 5}

\* The number of puzzles of a pack.  The source's literal is 40 (COUNT); the
\* model scales it down, so that the engine's loop, with its choice of results
\* at every pass, stays within reach.  generateFallback is called with 40 too
\* (FallbackCounts).
COUNT == 2

\* The counts generateFallback is called with: every count up to the 40 of
\* the source.
FallbackCounts == 0..40

\* The strings parseGrid is called with are a puzzle with the characters of
\* ParseChars written at the positions of ParsePositions, whole, cut by one
\* character or extended by one.
ParsePositions == {1, 41, 81}
ParseChars == {".", "-", "0", "1", "9", " ", "x"}
ParseLengths == {80, 81, 82}

\* A solution with the cells of `blanked' written as the character `blank',
\* followed by the characters of `tail'.
Written(solution, blanked, blank, tail) ==
    [k \in 1..(Len(solution) + Len(tail)) |->
        IF k > Len(solution) THEN tail[k - Len(solution)]
        ELSE IF (k - 1) \in blanked THEN blank ELSE solution[k]]

----------------------------------------------------------------------------
(* utils/sudoku.ts *)

BOARD_SIZE == 81

null == 0
NoSelection == -1
NullSession == [isNull |-> TRUE]
FormatError == [error |-> "FormatError"]

Cells == 0 .. (BOARD_SIZE - 1)

DigitChars == <<"1", "2", "3", "4", "5", "6", "7", "8", "9">>

\* Number(char) for the characters that yield an integer in 1..9, else 0.
NumberOf(char) ==
    IF \E d \in 1..9 : DigitChars[d] = char
    THEN CHOOSE d \in 1..9 : DigitChars[d] = char
    ELSE 0

\* Mutant: '0' is not among the blanks, and Number('0') is below 1.
parseGridZeroInvalid(g) ==
    IF Len(g) # BOARD_SIZE THEN FormatError
    ELSE IF \E k \in 1..Len(g) :
               /\ g[k] \notin {".", "-"}
               /\ NumberOf(g[k]) = 0
         THEN FormatError
         ELSE [i \in Cells |->
                  IF g[i + 1] \in {".", "-"} THEN null ELSE NumberOf(g[i + 1])]

parseGrid(g) ==
    IF Len(g) # BOARD_SIZE THEN FormatError
    ELSE IF \E k \in 1..Len(g) :
               /\ g[k] \notin {".", "-", "0"}
               /\ NumberOf(g[k]) = 0
         THEN FormatError
         ELSE [i \in Cells |->
                  IF g[i + 1] \in {".", "-", "0"} THEN null ELSE NumberOf(g[i + 1])]

rowColFromIndex(index) == [row |-> index \div 9, col |-> index % 9]

isSolved(values, solution) ==
    \A idx \in DOMAIN values :
        /\ values[idx] # null
        /\ values[idx] = NumberOf(solution[idx + 1])

\* The elements of a sequence.
Range(seq) == {seq[k] : k \in 1..Len(seq)}

\* markGroup's map byValue: each value held in the group, with the list of the
\* group's indices that hold it, in the group's order.
byValue(values, indices) ==
    [v \in {values[idx] : idx \in Range(indices)} \ {null} |->
        SelectSeq(indices, LAMBDA idx : values[idx] = v)]

\* Mutant: only the first two holders of a repeated value are marked.
markGroupFirstPair(values, indices) ==
    LET m == byValue(values, indices)
    IN  UNION {{m[v][1], m[v][2]} : v \in {w \in DOMAIN m : Len(m[w]) > 1}}

\* The indices one markGroup call adds to conflicts.
markGroup(values, indices) ==
    LET m == byValue(values, indices)
    IN  UNION {Range(m[v]) : v \in {w \in DOMAIN m : Len(m[w]) > 1}}

rowGroup(row) == [k \in 1..9 |-> row * 9 + (k - 1)]
colGroup(col) == [k \in 1..9 |-> (k - 1) * 9 + col]
boxGroup(boxRow, boxCol) ==
    [k \in 1..9 |-> (boxRow * 3 + ((k - 1) \div 3)) * 9 + (boxCol * 3 + ((k - 1) % 3))]

\* What each of computeConflicts' three loops marks.
rowMarks(values) == UNION {markGroup(values, rowGroup(row)) : row \in 0..8}
colMarks(values) == UNION {markGroup(values, colGroup(col)) : col \in 0..8}
boxMarks(values) ==
    UNION {markGroup(values, boxGroup(boxRow, boxCol)) : boxRow \in 0..2, boxCol \in 0..2}

\* Mutant: the loop over the boxes is missing.
computeConflictsRowsAndColumns(values) ==
    UNION ( {markGroup(values, rowGroup(row)) : row \in 0..8}
            \cup {markGroup(values, colGroup(col)) : col \in 0..8} )

computeConflicts(values) ==
    UNION ( {markGroup(values, rowGroup(row)) : row \in 0..8}
            \cup {markGroup(values, colGroup(col)) : col \in 0..8}
            \cup {markGroup(values, boxGroup(boxRow, boxCol)) :
                      boxRow \in 0..2, boxCol \in 0..2} )

----------------------------------------------------------------------------
(* The puzzle packs *)

knownSolutions == <<
  <<"5", "3", "4", "6", "7", "8", "9", "1", "2",
    "6", "7", "2", "1", "9", "5", "3", "4", "8",
    "1", "9", "8", "3", "4", "2", "5", "6", "7",
    "8", "5", "9", "7", "6", "1", "4", "2", "3",
    "4", "2", "6", "8", "5", "3", "7", "9", "1",
    "7", "1", "3", "9", "2", "4", "8", "5", "6",
    "9", "6", "1", "5", "3", "7", "2", "8", "4",
    "2", "8", "7", "4", "1", "9", "6", "3", "5",
    "3", "4", "5", "2", "8", "6", "1", "7", "9">>,
  <<"4", "1", "7", "3", "6", "9", "8", "2", "5",
    "6", "3", "2", "1", "5", "8", "9", "4", "7",
    "9", "5", "8", "7", "2", "4", "3", "1", "6",
    "8", "2", "5", "4", "3", "7", "1", "6", "9",
    "7", "9", "1", "5", "8", "6", "4", "3", "2",
    "3", "4", "6", "9", "1", "2", "7", "5", "8",
    "2", "8", "9", "6", "4", "3", "5", "7", "1",
    "5", "7", "3", "2", "9", "1", "6", "8", "4",
    "1", "6", "4", "8", "7", "5", "2", "9", "3">>,
  <<"2", "9", "5", "7", "4", "3", "8", "6", "1",
    "4", "3", "1", "8", "6", "5", "9", "2", "7",
    "8", "7", "6", "1", "9", "2", "5", "4", "3",
    "3", "8", "7", "4", "5", "9", "2", "1", "6",
    "6", "1", "2", "3", "8", "7", "4", "9", "5",
    "5", "4", "9", "2", "1", "6", "7", "3", "8",
    "7", "6", "3", "5", "2", "4", "1", "8", "9",
    "9", "2", "8", "6", "7", "1", "3", "5", "4",
    "1", "5", "4", "9", "3", "8", "6", "7", "2">> >>

Difficulty == {"easy", "medium", "hard"}

\* A solution with the cells of `blanked' emptied.
Blanked(solution, blanked) ==
    [k \in 1..Len(solution) |-> IF (k - 1) \in blanked THEN "." ELSE solution[k]]

\* The packs loaded from data/puzzles.<difficulty>.json.  The files are not
\* part of the sources at hand; each pack holds Puzzle records whose puzzle is
\* its solution with some cells blanked.  Here each pack holds one puzzle,
\* which leaves its first cell to the player.
puzzlePacks ==
    [d \in Difficulty |->
        LET solution == knownSolutions[IF d = "easy" THEN 1 ELSE IF d = "medium" THEN 2 ELSE 3]
        IN  << [id |-> d \o "-1", difficulty |-> d,
                puzzle |-> Blanked(solution, {0}),
                solution |-> solution] >>]

----------------------------------------------------------------------------
(* App: the session *)

cloneNotes(notes) == [i \in DOMAIN notes |-> notes[i]]

snapshotOf(s) == [entries |-> [i \in DOMAIN s.entries |-> s.entries[i]],
                  notes |-> cloneNotes(s.notes)]

\* ((index % length) + length) % length, with JavaScript's truncating %.
puzzleAt(difficulty, index) ==
    LET pack == puzzlePacks[difficulty]
        length == Len(pack)
        rem == IF index >= 0 THEN index % length ELSE -((-index) % length)
        safeIndex == (rem + length) % length
    IN  [puzzle |-> pack[safeIndex + 1], index |-> safeIndex]

createSession(difficulty, puzzleIndex) ==
    LET at == puzzleAt(difficulty, puzzleIndex)
        entries == parseGrid(at.puzzle.puzzle)
    IN  [difficulty |-> difficulty,
         puzzleIndex |-> at.index,
         puzzle |-> at.puzzle,
         givens |-> [i \in DOMAIN entries |-> entries[i] # null],
         entries |-> entries,
         notes |-> [i \in Cells |-> {}],
         selected |-> NoSelection,
         notesMode |-> FALSE,
         undo |-> <<>>,
         redo |-> <<>>,
         elapsedSeconds |-> 0]

\* The mutators applyNumber and clearCell hand to applyWithHistory, as data.
NumberEdit(value) == [kind |-> "applyNumber", value |-> value]
ClearEdit == [kind |-> "clearCell"]

\* Adding or removing one value of a notes array (a Set, then sorted).
toggleNote(notes, value) ==
    IF value \in notes THEN notes \ {value} ELSE notes \cup {value}

\* Mutant: the mutator without its guard on givens.
applyNumberMutatorNoGivens(draft, value) ==
    LET index == draft.selected
    IN  IF index = NoSelection THEN draft
        ELSE IF draft.notesMode
        THEN [draft EXCEPT !.notes[index] = toggleNote(draft.notes[index], value)]
        ELSE [draft EXCEPT !.entries[index] = value, !.notes[index] = {}]

\* applyNumber's mutator.
applyNumberMutator(draft, value) ==
    LET index == draft.selected
    IN  IF index = NoSelection \/ draft.givens[index] THEN draft
        ELSE IF draft.notesMode
        THEN [draft EXCEPT !.notes[index] = toggleNote(draft.notes[index], value)]
        ELSE [draft EXCEPT !.entries[index] = value, !.notes[index] = {}]

\* clearCell's mutator.
clearCellMutator(draft) ==
    LET index == draft.selected
    IN  IF index = NoSelection \/ draft.givens[index] THEN draft
        ELSE [draft EXCEPT !.entries[index] = null, !.notes[index] = {}]

mutator(draft, edit) ==
    IF edit.kind = "applyNumber" THEN applyNumberMutator(draft, edit.value)
    ELSE clearCellMutator(draft)

\* Mutant: the push without the cap check.
pushUndoNoCap(undo, before) == Append(undo, before)

\* Mutant: a full stack drops its newest entry (pop) instead of its oldest.
pushUndoPop(undo, before) ==
    LET pushed == Append(undo, before)
    IN  IF Len(pushed) > UNDO_LIMIT THEN SubSeq(pushed, 1, Len(pushed) - 1) ELSE pushed

\* draft.undo.push(before); if (draft.undo.length > 200) draft.undo.shift()
pushUndo(undo, before) ==
    LET pushed == Append(undo, before)
    IN  IF Len(pushed) > UNDO_LIMIT THEN Tail(pushed) ELSE pushed

\* Mutant: the redo stack survives an edit.
applyWithHistoryKeepRedo(prev, edit) ==
    IF prev = NullSession THEN prev
    ELSE LET before == snapshotOf(prev)
             draft == mutator(prev, edit)
         IN  [draft EXCEPT !.undo = pushUndo(prev.undo, before)]

\* Mutant: the snapshot is taken after the mutator ran.
applyWithHistoryLateSnapshot(prev, edit) ==
    IF prev = NullSession THEN prev
    ELSE LET draft == mutator(prev, edit)
             before == snapshotOf(draft)
         IN  [draft EXCEPT !.undo = pushUndo(prev.undo, before), !.redo = <<>>]

\* The updater applyWithHistory hands to setSession.
applyWithHistory(prev, edit) ==
    IF prev = NullSession THEN prev
    ELSE LET before == snapshotOf(prev)
             draft == mutator(prev, edit)
         IN  [draft EXCEPT !.undo = pushUndo(prev.undo, before), !.redo = <<>>]

applyNumber(prev, value) == applyWithHistory(prev, NumberEdit(value))

clearCell(prev) == applyWithHistory(prev, ClearEdit)

\* Mutant: undo saves the current state for redo before it looks at the stack.
undoSavesFirst(prev) ==
    IF prev = NullSession THEN prev
    ELSE LET current == snapshotOf(prev)
         IN  IF Len(prev.undo) = 0
             THEN [prev EXCEPT !.redo = Append(prev.redo, current)]
             ELSE LET previous == prev.undo[Len(prev.undo)]
                  IN  [prev EXCEPT !.entries = previous.entries,
                                   !.notes = cloneNotes(previous.notes),
                                   !.undo = SubSeq(prev.undo, 1, Len(prev.undo) - 1),
                                   !.redo = Append(prev.redo, current)]

\* The updater of undo.
undo(prev) ==
    IF prev = NullSession \/ Len(prev.undo) = 0 THEN prev
    ELSE LET current == snapshotOf(prev)
             previous == prev.undo[Len(prev.undo)]
         IN  [prev EXCEPT !.entries = previous.entries,
                          !.notes = cloneNotes(previous.notes),
                          !.undo = SubSeq(prev.undo, 1, Len(prev.undo) - 1),
                          !.redo = Append(prev.redo, current)]

\* Mutant: redo restores the snapshot and leaves it on the redo stack.
redoKeepsEntry(prev) ==
    IF prev = NullSession \/ Len(prev.redo) = 0 THEN prev
    ELSE LET current == snapshotOf(prev)
             next == prev.redo[Len(prev.redo)]
         IN  [prev EXCEPT !.entries = next.entries,
                          !.notes = cloneNotes(next.notes),
                          !.undo = Append(prev.undo, current)]

\* Mutant: redo empties the redo stack instead of popping it.
redoEmptiesStack(prev) ==
    IF prev = NullSession \/ Len(prev.redo) = 0 THEN prev
    ELSE LET current == snapshotOf(prev)
             next == prev.redo[Len(prev.redo)]
         IN  [prev EXCEPT !.entries = next.entries,
                          !.notes = cloneNotes(next.notes),
                          !.undo = Append(prev.undo, current),
                          !.redo = <<>>]

\* The updater of redo.
redo(prev) ==
    IF prev = NullSession \/ Len(prev.redo) = 0 THEN prev
    ELSE LET current == snapshotOf(prev)
             next == prev.redo[Len(prev.redo)]
         IN  [prev EXCEPT !.entries = next.entries,
                          !.notes = cloneNotes(next.notes),
                          !.undo = Append(prev.undo, current),
                          !.redo = SubSeq(prev.redo, 1, Len(prev.redo) - 1)]

\* The cell an arrow key moves the selection to.
moveSelection(selected, deltaRow, deltaCol) ==
    LET base == IF selected = NoSelection THEN 40 ELSE selected
        rc == rowColFromIndex(base)
        nextRow == (rc.row + deltaRow + 9) % 9
        nextCol == (rc.col + deltaCol + 9) % 9
    IN  nextRow * 9 + nextCol

\* The win-detection effect, which runs after every render: the screen it
\* leaves for the session and screen just rendered.
winEffect(scr, s) ==
    IF s = NullSession \/ scr # "play" THEN scr
    ELSE IF /\ \A i \in DOMAIN s.entries : s.entries[i] # null
            /\ isSolved(s.entries, s.puzzle.solution)
            /\ computeConflicts(s.entries) = {}
         THEN "won"
         ELSE scr

----------------------------------------------------------------------------
(* The pack generation script: seeded and carve *)

\* A 32-bit unsigned integer is kept as its two 16-bit halves, so that no
\* intermediate value of the arithmetic below exceeds 2^31.
Half == 65536

undefined == -1
NoCall == [made |-> FALSE]

\* Mutant: one generator for the whole script, seeded by the first call.
seededOnce(seed) ==
    IF carveArgs = NoCall
    THEN [hi |-> (seed \div Half) % Half, lo |-> seed % Half]
    ELSE rngState

\* seeded: the closure's initial state, seed >>> 0.
seeded(seed) == [hi |-> (seed \div Half) % Half, lo |-> seed % Half]

\* The closure's step: state = (state * 1664525 + 1013904223) >>> 0, with
\* 1664525 = 25 * 2^16 + 26125 and 1013904223 = 15470 * 2^16 + 62303.  The
\* product stays below 2^53, so the double arithmetic of the source is exact.
nextState(state) ==
    LET low == state.lo * 26125 + 62303
        high == state.hi * 26125 + state.lo * 25 + 15470 + (low \div Half)
    IN  [hi |-> high % Half, lo |-> low % Half]

\* Math.floor((state / 0xffffffff) * n) for 1 <= n <= 81.  With
\* state * n = q * 2^32 + r this is q, plus one when q + r >= 2^32 - 1; the
\* two roundings of the double computation never reach across an integer.
randomIndex(state, n) ==
    LET b == state.lo * n
        t == state.hi * n + (b \div Half)
        q == t \div Half
        rhi == t % Half
        rlo == b % Half
    IN  IF rhi = Half - 1 /\ rlo >= Half - 1 - q THEN q + 1 ELSE q

\* An array read: undefined beyond the end.
At(array, k) == IF k \in DOMAIN array THEN array[k] ELSE undefined

\* [array[i], array[j]] = [array[j], array[i]]; a write past the end grows
\* the array.
swap(array, i, j) ==
    LET ai == At(array, i)
        aj == At(array, j)
    IN  IF j \in DOMAIN array
        THEN [array EXCEPT ![i] = aj, ![j] = ai]
        ELSE [array EXCEPT ![i] = aj] @@ (j :> ai)

\* One iteration of carve's shuffle loop: a draw and a swap.
shuffleStep(loop, i) ==
    LET drawn == nextState(loop.state)
        j == randomIndex(drawn, i + 1)
    IN  [indices |-> swap(loop.indices, i, j), state |-> drawn]

\* The iterations of the loop from index i down to 1.  (The test of the
\* array, which is never empty, makes TLC finish an iteration before it
\* enters the next.)
RECURSIVE shuffle(_, _)
shuffle(loop, i) ==
    IF i > 0
    THEN LET next == shuffleStep(loop, i)
         IN  IF next.indices = <<>> THEN next ELSE shuffle(next, i - 1)
    ELSE loop

\* carve with the generator rand starts from: the string returned and the
\* state the generator is left in.
carveFrom(solution, blanks, state) ==
    LET indices == [i \in 0..80 |-> i]
        shuffled == shuffle([indices |-> indices, state |-> state],
                            Cardinality(DOMAIN indices) - 1)
        blanked == {At(shuffled.indices, i) : i \in 0..(blanks - 1)}
    IN  [out |-> [k \in 1..Len(solution) |->
                     IF (k - 1) \in blanked THEN "." ELSE solution[k]],
         state |-> shuffled.state,
         indices |-> shuffled.indices]

carve(solution, blanks, seed) == carveFrom(solution, blanks, seeded(seed))

----------------------------------------------------------------------------
(* The pack generation script: generateWithEngine, generateFallback, main *)

\* getSudoku returning nothing.
NoResult == [none |-> TRUE]

\* What getSudoku returns, when it returns: nothing, an empty puzzle, a
\* puzzle whose blanks are zeros, a puzzle whose blanks are dashes with its
\* solution, each followed by a space, and a puzzle with the solution of
\* another.
EngineResults ==
    { NoResult,
      [puzzle |-> <<>>, solution |-> knownSolutions[1]],
      [puzzle |-> Written(knownSolutions[1], {0, 1}, "0", <<>>),
       solution |-> knownSolutions[1]],
      [puzzle |-> Written(knownSolutions[1], {0, 1}, "-", <<" ">>),
       solution |-> Written(knownSolutions[1], {}, "-", <<" ">>)],
      [puzzle |-> Written(knownSolutions[2], {0, 1}, "-", <<>>),
       solution |-> knownSolutions[1]] }

engineTarget(difficulty) == IF difficulty = "hard" THEN "expert" ELSE difficulty

\* !generated?.puzzle || !generated?.solution
missing(result) ==
    \/ result = NoResult
    \/ result.puzzle = <<>>
    \/ result.solution = <<>>

\* generated.puzzle.replace(/[^1-9.-]/g, '').replace(/-/g, '.')
normalizePuzzle(raw) ==
    LET kept == SelectSeq(raw, LAMBDA c : c \in Range(DigitChars) \cup {".", "-"})
    IN  [k \in 1..Len(kept) |-> IF kept[k] = "-" THEN "." ELSE kept[k]]

\* generated.solution.replace(/[^1-9]/g, '')
normalizeSolution(raw) == SelectSeq(raw, LAMBDA c : c \in Range(DigitChars))

\* Mutant: the id is the number of records so far, without the + 1.
engineItemFromZero(difficulty, accepted, puzzle, solution) ==
    [id |-> difficulty \o "-" \o ToString(Len(accepted)),
     difficulty |-> difficulty,
     puzzle |-> puzzle,
     solution |-> solution]

\* The record generateWithEngine pushes onto items.
engineItem(difficulty, accepted, puzzle, solution) ==
    [id |-> difficulty \o "-" \o ToString(Len(accepted) + 1),
     difficulty |-> difficulty,
     puzzle |-> puzzle,
     solution |-> solution]

\* One pass of generateWithEngine's loop on what getSudoku returned: items
\* after it.
loopBody(difficulty, accepted, result) ==
    IF missing(result) THEN accepted
    ELSE LET puzzle == normalizePuzzle(result.puzzle)
             solution == normalizeSolution(result.solution)
         IN  IF Len(puzzle) # 81 \/ Len(solution) # 81 THEN accepted
             ELSE Append(accepted, engineItem(difficulty, accepted, puzzle, solution))

blanksByDifficulty == [easy |-> 36, medium |-> 46, hard |-> 54]

\* Mutant: the seed is the index, without the + 11.
fallbackItemSeedIndex(difficulty, index) ==
    LET solution == knownSolutions[(index % Len(knownSolutions)) + 1]
    IN  [id |-> difficulty \o "-" \o ToString(index + 1),
         difficulty |-> difficulty,
         puzzle |-> carve(solution, blanksByDifficulty[difficulty], index).out,
         solution |-> solution]

\* The callback generateFallback hands to Array.from.
fallbackItem(difficulty, index) ==
    LET solution == knownSolutions[(index % Len(knownSolutions)) + 1]
    IN  [id |-> difficulty \o "-" \o ToString(index + 1),
         difficulty |-> difficulty,
         puzzle |-> carve(solution, blanksByDifficulty[difficulty], index + 11).out,
         solution |-> solution]

generateFallback(difficulty, count) ==
    [k \in 1..count |-> fallbackItem(difficulty, k - 1)]

\* Mutant: the catch block tops up what the engine had accepted.
catchBlockKeepsItems(accepted, difficulty) ==
    LET fallback == generateFallback(difficulty, COUNT)
    IN  accepted \o SubSeq(fallback, Len(accepted) + 1, COUNT)

\* main's catch block: the pack it assigns to puzzles.  The records the
\* engine had accepted are local to generateWithEngine and play no part.
catchBlock(accepted, difficulty) == generateFallback(difficulty, COUNT)

----------------------------------------------------------------------------
(* App: the handlers, each followed by the render's win-detection effect *)

Untracked == [tracked |-> FALSE, log |-> <<>>]

\* editLog after a handler: a new session starts the log, an edit recorded by
\* applyWithHistory extends it, undo and redo end it.
Track(op, prev) ==
    IF op = "startNew" THEN [tracked |-> TRUE, log |-> <<>>]
    ELSE IF op \in {"keyDigit", "padDigit", "keyClear", "erase"}
    THEN IF editLog.tracked /\ Len(editLog.log) < UNDO_LIMIT + MaxOverflow
         THEN [editLog EXCEPT !.log = Append(@, snapshotOf(prev))]
         ELSE Untracked
    ELSE IF op \in {"undo", "redo", "backToStart"} THEN Untracked
    ELSE editLog

\* lastOp after the handler op ran on prev: which updater of the history it
\* called, if any, and for an edit the length of the redo stack it discarded.
Last(op, prev) ==
    IF op \in {"keyDigit", "padDigit"}
    THEN [name |-> "applyNumber", redoBefore |-> Len(prev.redo)]
    ELSE IF op \in {"keyClear", "erase"}
    THEN [name |-> "clearCell", redoBefore |-> Len(prev.redo)]
    ELSE IF op \in {"undo", "redo"}
    THEN [name |-> op, redoBefore |-> 0]
    ELSE [name |-> "none", redoBefore |-> 0]

\* setSession(next) by the handler op, and the effects of the render.
Commit(op, scr, next) ==
    /\ session' = next
    /\ screen' = winEffect(scr, next)
    /\ lastOp' = Last(op, session)
    /\ editLog' = Track(op, session)
    /\ UNCHANGED <<conflictVars, carveVars, parseVars, fallbackVars, mainVars>>

Rendered == screen # "start" /\ session # NullSession

\* The start screen's Easy, Medium and Hard buttons.
StartNew ==
    /\ screen = "start"
    /\ \E difficulty \in StartChoices :
           Commit("startNew", "play", createSession(difficulty, 0))

\* The win modal's Next puzzle button.
NextPuzzle ==
    /\ Rendered /\ screen = "won"
    /\ Commit("startNew", "play",
              createSession(session.difficulty, session.puzzleIndex + 1))

\* The Back button and the win modal's Back to start button.
BackToStart ==
    /\ Rendered
    /\ Commit("backToStart", "start", NullSession)

\* A click on a cell of the board.
SelectCell ==
    /\ Rendered
    /\ \E index \in ClickCells :
           Commit("select", screen, [session EXCEPT !.selected = index])

\* An arrow key.
ArrowKey ==
    /\ Rendered /\ screen = "play"
    /\ \E delta \in {<<-1, 0>>, <<1, 0>>, <<0, -1>>, <<0, 1>>} :
           LET target == moveSelection(session.selected, delta[1], delta[2])
           IN  /\ target \in ClickCells
               /\ Commit("arrow", screen, [session EXCEPT !.selected = target])

\* The Notes button, and the n key while playing.
ToggleNotes ==
    /\ Rendered
    /\ Commit("toggleNotes", screen, [session EXCEPT !.notesMode = ~@])

\* A digit key: onKeyDown returns early on a given or with nothing selected.
KeyDigit ==
    /\ Rendered /\ screen = "play"
    /\ session.selected # NoSelection
    /\ ~session.givens[session.selected]
    /\ \E value \in KeyDigits :
           Commit("keyDigit", screen, applyNumber(session, value))

\* Backspace, Delete or 0.
KeyClear ==
    /\ Rendered /\ screen = "play"
    /\ session.selected # NoSelection
    /\ ~session.givens[session.selected]
    /\ Commit("keyClear", screen, clearCell(session))

\* A button of the digit pad.
PadDigit ==
    /\ Rendered
    /\ \E value \in KeyDigits :
           Commit("padDigit", screen, applyNumber(session, value))

\* The Erase button.
Erase ==
    /\ Rendered
    /\ Commit("erase", screen, clearCell(session))

\* The Undo button.  Its disabled attribute is that of the last render; the
\* updater's own guard decides what a call does.
Undo ==
    /\ Rendered
    /\ Commit("undo", screen, undo(session))

\* The Redo button.
Redo ==
    /\ Rendered
    /\ Commit("redo", screen, redo(session))

\* The one-second timer, which runs while playing.
Tick ==
    /\ Rendered /\ screen = "play"
    /\ session.elapsedSeconds < MaxSeconds
    /\ Commit("tick", screen, [session EXCEPT !.elapsedSeconds = @ + 1])

\* The app as mounted with nothing in local storage.  (A stored game, which
\* the mount effect would restore, is a session saved from a state below.)
Init ==
    /\ screen = "start"
    /\ session = NullSession
    /\ lastOp = [name |-> "none", redoBefore |-> 0]
    /\ editLog = Untracked
    /\ grid = [i \in Cells |-> null]
    /\ conflicts = {}
    /\ carveArgs = NoCall
    /\ carveOut = <<>>
    /\ rngState = [hi |-> 0, lo |-> 0]
    /\ firstCall = NoCall
    /\ markedBy = [row |-> {}, col |-> {}, box |-> {}]
    /\ carveIndices = <<>>
    /\ parseArg = <<>>
    /\ parseOut = FormatError
    /\ fallbackArgs = NoCall
    /\ fallbackOut = <<>>
    /\ pc = "import"
    /\ difficultyIndex = 1
    /\ items = <<>>
    /\ generated = NoResult
    /\ puzzles = <<>>
    /\ written = <<>>
    /\ attempt = [d \in Difficulty |->
                     [accepted |-> <<>>, rejected |-> FALSE, raised |-> FALSE,
                      fallbacks |-> 0]]

Next ==
    \/ StartNew
    \/ NextPuzzle
    \/ BackToStart
    \/ SelectCell
    \/ ArrowKey
    \/ ToggleNotes
    \/ KeyDigit
    \/ KeyClear
    \/ PadDigit
    \/ Erase
    \/ Undo
    \/ Redo
    \/ Tick

Spec == Init /\ [][Next]_vars

----------------------------------------------------------------------------
(* The history: claims C1 to C7 *)

Edits == {"applyNumber", "clearCell"}

Live == session # NullSession

\* C1: in every reachable session the undo stack holds at most UNDO_LIMIT
\* snapshots (200 in the source), redo's unchecked push included.
C1_UndoBounded == Live => Len(session.undo) <= UNDO_LIMIT

\* redo has just pushed onto an undo stack that is now full.
C1_Witness ==
    /\ Live
    /\ lastOp.name = "redo"
    /\ Len(session.undo) = UNDO_LIMIT

\* C2: right after an edit applied through applyWithHistory the redo stack
\* is empty, so that redo does nothing.
C2_RedoClearedByEdit ==
    (Live /\ lastOp.name \in Edits) =>
        /\ session.redo = <<>>
        /\ redo(session) = session

\* an edit has just been applied to a session whose redo stack held snapshots.
C2_Witness ==
    /\ Live
    /\ lastOp.name \in Edits
    /\ lastOp.redoBefore > 0

\* C3: every edit that changes entries or notes is undone by one undo: the
\* undo restores the entries and the notes the edit found.
C3_UndoRestoresEdit ==
    [][ ( /\ session # NullSession
          /\ session' # NullSession
          /\ lastOp'.name \in Edits
          /\ snapshotOf(session') # snapshotOf(session) )
        => snapshotOf(undo(session')) = snapshotOf(session) ]_vars

\* an edit has just changed the board: the snapshot it recorded differs from
\* the board it left.
C3_Witness ==
    /\ Live
    /\ lastOp.name \in Edits
    /\ Len(session.undo) > 0
    /\ session.undo[Len(session.undo)] # snapshotOf(session)

\* C4: undo then redo, and redo then undo, each leave the session (entries,
\* notes, undo stack and redo stack) as it was.
C4_UndoRedoInverse ==
    Live =>
        /\ Len(session.undo) > 0 => redo(undo(session)) = session
        /\ Len(session.redo) > 0 => undo(redo(session)) = session

\* a redo has run and both stacks hold snapshots.
C4_Witness ==
    /\ Live
    /\ lastOp.name = "redo"
    /\ Len(session.undo) > 0
    /\ Len(session.redo) > 0

Min(a, b) == IF a < b THEN a ELSE b

\* The last n elements of a sequence.
LastN(seq, n) == SubSeq(seq, Len(seq) - n + 1, Len(seq))

\* C5: after m consecutive recorded edits of a new session the undo stack is
\* the min(m, UNDO_LIMIT) most recent pre-edit snapshots, oldest first.
C5_UndoIsRecentEdits ==
    editLog.tracked =>
        session.undo = LastN(editLog.log, Min(Len(editLog.log), UNDO_LIMIT))

\* more edits than the stack holds have been recorded, and the evicted
\* snapshots differ from the ones kept.
C5_Witness ==
    /\ editLog.tracked
    /\ Len(editLog.log) = UNDO_LIMIT + MaxOverflow
    /\ editLog.log[1] # editLog.log[MaxOverflow + 1]

\* C6: undo on an empty undo stack and redo on an empty redo stack leave the
\* session as it is.
C6_EmptyStackNoOp ==
    [][ /\ ( /\ session # NullSession
             /\ lastOp'.name = "undo"
             /\ Len(session.undo) = 0 ) => session' = session
        /\ ( /\ session # NullSession
             /\ lastOp'.name = "redo"
             /\ Len(session.redo) = 0 ) => session' = session ]_vars

\* undo has just run on an empty undo stack: had it popped a snapshot, the
\* redo stack would hold one.
C6_Witness ==
    /\ Live
    /\ lastOp.name = "undo"
    /\ session.undo = <<>>
    /\ session.redo = <<>>

\* C7: a given cell keeps the digit of the puzzle and has no notes.
C7_GivensFixed ==
    Live =>
        LET initial == parseGrid(session.puzzle.puzzle)
        IN  \A i \in Cells :
                session.givens[i] =>
                    /\ session.entries[i] = initial[i]
                    /\ session.notes[i] = {}

\* a digit of the pad has just been pressed with a given cell selected.
C7_Witness ==
    /\ Live
    /\ lastOp.name = "applyNumber"
    /\ session.selected # NoSelection
    /\ session.givens[session.selected]

----------------------------------------------------------------------------
(* computeConflicts: claim C8 *)

Filled(values) == {i \in Cells : values[i] # null}

\* A call of computeConflicts with a grid that differs from the last in one cell.
CallComputeConflicts ==
    \E i \in Cells, v \in PlaceDigits \cup {null} :
        LET values == [grid EXCEPT ![i] = v]
        IN  /\ values # grid
            /\ \/ Cardinality(Filled(values)) <= MaxFilled
               \/ Filled(values) \subseteq PlaceCells
            /\ grid' = values
            /\ conflicts' = computeConflicts(values)
            /\ markedBy' = [row |-> rowMarks(values), col |-> colMarks(values),
                            box |-> boxMarks(values)]
            /\ UNCHANGED <<sessionVars, carveVars, parseVars, fallbackVars, mainVars>>

NextConflicts == CallComputeConflicts

SpecConflicts == Init /\ [][NextConflicts]_vars

\* Two cells share a row, a column or a 3x3 box.
SameGroup(i, j) ==
    \/ i \div 9 = j \div 9
    \/ i % 9 = j % 9
    \/ /\ (i \div 9) \div 3 = (j \div 9) \div 3
       /\ (i % 9) \div 3 = (j % 9) \div 3

\* C8: computeConflicts returns exactly the non-empty cells whose value is
\* held by another cell of their row, column or box.
C8_ConflictsExact ==
    conflicts =
        {i \in Cells :
            /\ grid[i] # null
            /\ \E j \in Cells \ {i} : SameGroup(i, j) /\ grid[j] = grid[i]}

\* three cells of a row hold the same value, next to a cell of the row that
\* holds another, and all three are reported.
C8_Witness ==
    /\ grid[0] # null
    /\ grid[1] = grid[0]
    /\ grid[2] = grid[0]
    /\ grid[8] \notin {null, grid[0]}
    /\ {0, 1, 2} \subseteq conflicts
    /\ 8 \notin conflicts

----------------------------------------------------------------------------
(* carve: claims C9 and C10 *)

\* A call of carve.
CallCarve ==
    \E k \in CarveSolutions, blanks \in CarveBlanks, seed \in CarveSeeds :
        LET args == [made |-> TRUE, solution |-> knownSolutions[k],
                     blanks |-> blanks, seed |-> seed]
            result == carve(args.solution, blanks, seed)
        IN  /\ carveArgs' = args
            /\ carveOut' = result.out
            /\ rngState' = result.state
            /\ carveIndices' = result.indices
            /\ firstCall' =
                   IF firstCall = NoCall
                   THEN [made |-> TRUE, args |-> args, out |-> result.out,
                         others |-> FALSE]
                   ELSE [firstCall EXCEPT !.others = @ \/ args # firstCall.args]
            /\ UNCHANGED <<sessionVars, conflictVars, parseVars, fallbackVars, mainVars>>

NextCarve == CallCarve

SpecCarve == Init /\ [][NextCarve]_vars

\* C9: carve returns 81 characters that parse, with exactly `blanks' empty
\* cells and the solution's digit in every other cell.
C9_CarveBlanksExactly ==
    carveArgs.made =>
        LET cells == parseGrid(carveOut)
        IN  /\ Len(carveOut) = 81
            /\ cells # FormatError
            /\ Cardinality({i \in Cells : cells[i] = null}) = carveArgs.blanks
            /\ \A i \in Cells :
                   cells[i] # null => carveOut[i + 1] = carveArgs.solution[i + 1]

\* C10: a call of carve returns what the first call with the same arguments
\* returned, whatever calls were made in between.
C10_CarveDeterministic ==
    (firstCall.made /\ carveArgs = firstCall.args) => carveOut = firstCall.out

\* the arguments of the first call have just been used again, after a call
\* with other arguments, and blanks were carved.
C10_Witness ==
    /\ firstCall.made
    /\ firstCall.others
    /\ carveArgs = firstCall.args
    /\ carveArgs.blanks > 0

----------------------------------------------------------------------------
(* The script: main, with generateWithEngine step by step *)

difficulties == <<"easy", "medium", "hard">>

\* attempt after a step of the script for the difficulty d: the records the
\* engine has accepted for d, whether it rejected a result, whether the
\* attempt raised an error, and how many times the catch block ran.
Noted(d, accepted, rejected, raised, fallbacks) ==
    [attempt EXCEPT ![d] =
        [accepted |-> accepted,
         rejected |-> rejected,
         raised |-> raised,
         fallbacks |-> fallbacks]]

\* while (items.length < count), and generateWithEngine's return to main.
LoopTest(accepted) ==
    IF Len(accepted) < COUNT
    THEN pc' = "call" /\ puzzles' = puzzles
    ELSE pc' = "write" /\ puzzles' = accepted

\* await import('sudoku-gen') succeeds.
Import ==
    /\ pc = "import"
    /\ items' = <<>>
    /\ LoopTest(items')
    /\ UNCHANGED <<difficultyIndex, generated, written, attempt>>
    /\ UNCHANGED <<sessionVars, conflictVars, carveVars, parseVars, fallbackVars>>

\* await import('sudoku-gen') fails: the engine is not there.
ImportFails ==
    /\ pc = "import"
    /\ pc' = "catch"
    /\ attempt' = LET d == difficulties[difficultyIndex]
                  IN  Noted(d, <<>>, FALSE, TRUE, attempt[d].fallbacks)
    /\ UNCHANGED <<difficultyIndex, items, generated, puzzles, written>>
    /\ UNCHANGED <<sessionVars, conflictVars, carveVars, parseVars, fallbackVars>>

\* getSudoku(target) returns, for a target the engine knows.
GetSudoku ==
    /\ pc = "call"
    /\ engineTarget(difficulties[difficultyIndex]) \in {"easy", "medium", "expert"}
    /\ \E result \in EngineResults : generated' = result
    /\ pc' = "check"
    /\ UNCHANGED <<difficultyIndex, items, puzzles, written, attempt>>
    /\ UNCHANGED <<sessionVars, conflictVars, carveVars, parseVars, fallbackVars>>

\* getSudoku(target) throws: the error leaves generateWithEngine, and items
\* with it.
GetSudokuThrows ==
    /\ pc = "call"
    /\ pc' = "catch"
    /\ items' = <<>>
    /\ generated' = NoResult
    /\ attempt' = LET d == difficulties[difficultyIndex]
                  IN  Noted(d, attempt[d].accepted, attempt[d].rejected, TRUE,
                            attempt[d].fallbacks)
    /\ UNCHANGED <<difficultyIndex, puzzles, written>>
    /\ UNCHANGED <<sessionVars, conflictVars, carveVars, parseVars, fallbackVars>>

\* The rest of the loop's pass: the two tests and the push.
Check ==
    /\ pc = "check"
    /\ LET d == difficulties[difficultyIndex]
           next == loopBody(d, items, generated)
       IN  /\ items' = next
           /\ attempt' = Noted(d, next,
                               attempt[d].rejected \/ next = items,
                               attempt[d].raised, attempt[d].fallbacks)
           /\ LoopTest(next)
    /\ generated' = NoResult
    /\ UNCHANGED <<difficultyIndex, written>>
    /\ UNCHANGED <<sessionVars, conflictVars, carveVars, parseVars, fallbackVars>>

\* main's catch block.
Catch ==
    /\ pc = "catch"
    /\ LET d == difficulties[difficultyIndex]
       IN  /\ puzzles' = catchBlock(attempt[d].accepted, d)
           /\ attempt' = Noted(d, attempt[d].accepted, attempt[d].rejected,
                               attempt[d].raised, attempt[d].fallbacks + 1)
    /\ pc' = "write"
    /\ UNCHANGED <<difficultyIndex, items, generated, written>>
    /\ UNCHANGED <<sessionVars, conflictVars, carveVars, parseVars, fallbackVars>>

\* writeFileSync, and the loop's next difficulty.
WriteFile ==
    /\ pc = "write"
    /\ written' = (difficulties[difficultyIndex] :> puzzles) @@ written
    /\ IF difficultyIndex < Len(difficulties)
       THEN pc' = "import" /\ difficultyIndex' = difficultyIndex + 1
       ELSE pc' = "done" /\ difficultyIndex' = difficultyIndex
    /\ items' = <<>>
    /\ puzzles' = <<>>
    /\ UNCHANGED <<generated, attempt>>
    /\ UNCHANGED <<sessionVars, conflictVars, carveVars, parseVars, fallbackVars>>

NextMain ==
    \/ Import
    \/ ImportFails
    \/ GetSudoku
    \/ GetSudokuThrows
    \/ Check
    \/ Catch
    \/ WriteFile

SpecMain == Init /\ [][NextMain]_vars

\* The script runs on: Node takes the script's next step as long as there is
\* one.  What getSudoku returns, and whether it throws, is the engine's
\* choice.  (The catch block is enabled exactly when pc = "catch" and leaves
\* that position, so its weak fairness is that the script is not there
\* forever.)
FairSpecMain ==
    /\ SpecMain
    /\ WF_vars(Import \/ ImportFails)
    /\ WF_vars(GetSudoku \/ GetSudokuThrows)
    /\ WF_vars(Check)
    /\ []<>(pc # "catch")
    /\ WF_vars(WriteFile)

----------------------------------------------------------------------------
(* main: claims C11 to C13 and C15 *)

\* C11: a pack is written by one path.  The catch block runs at most once
\* for a difficulty and only after its engine attempt raised an error; a
\* pack written without it is the records the engine accepted, and a pack
\* written after it holds none of them.
C11_OnePathPerPack ==
    \A d \in Difficulty :
        /\ attempt[d].fallbacks <= 1
        /\ attempt[d].fallbacks = 1 => attempt[d].raised
        /\ d \in DOMAIN written =>
               IF attempt[d].fallbacks = 0
               THEN written[d] = attempt[d].accepted
               ELSE Range(written[d]) \cap Range(attempt[d].accepted) = {}

\* a pack was written by the fallback after the engine had accepted a record.
C11_Witness ==
    \E d \in DOMAIN written :
        /\ attempt[d].fallbacks = 1
        /\ attempt[d].accepted # <<>>

\* C12: a written pack of the difficulty d holds COUNT records (40 in the
\* source) whose ids are d-1, d-2, ... in this order, whichever path wrote it
\* and whatever the engine's loop rejected.
C12_SequentialIds ==
    \A d \in DOMAIN written :
        /\ Len(written[d]) = COUNT
        /\ \A k \in 1..COUNT : written[d][k].id = d \o "-" \o ToString(k)

\* the engine wrote the easy pack after its loop rejected a result, and the
\* fallback wrote the medium pack.
C12_Witness ==
    /\ {"easy", "medium"} \subseteq DOMAIN written
    /\ attempt["easy"].fallbacks = 0
    /\ attempt["easy"].rejected
    /\ written["easy"][1].id = "easy-1"
    /\ attempt["medium"].fallbacks = 1
    /\ written["medium"][COUNT].id = "medium-" \o ToString(COUNT)

\* C13: the script eventually writes the pack of every difficulty, whatever
\* the engine returns.
C13_PacksEventuallyWritten == <>(DOMAIN written = Difficulty)

\* C15: in every record of a written pack, puzzle and solution have 81
\* characters, the solution's are digits 1 to 9, the puzzle's are digits 1 to
\* 9 or '.', and the puzzle has the solution's digit wherever it is not '.'.
C15_RecordsWellFormed ==
    \A d \in DOMAIN written :
        \A k \in 1..Len(written[d]) :
            LET record == written[d][k]
            IN  /\ Len(record.puzzle) = 81
                /\ Len(record.solution) = 81
                /\ \A i \in 1..81 :
                       /\ record.solution[i] \in Range(DigitChars)
                       /\ record.puzzle[i] \in Range(DigitChars) \cup {"."}
                       /\ record.puzzle[i] # "." => record.puzzle[i] = record.solution[i]

----------------------------------------------------------------------------
(* generateFallback: claim C14 *)

\* A call of generateFallback.  The function is pure; the calls are made for
\* one puzzle more than the last call, or for another difficulty from no
\* puzzle on, which reaches every count of FallbackCounts for every
\* difficulty.
CallGenerateFallback ==
    \E difficulty \in Difficulty, count \in FallbackCounts :
        /\ IF fallbackArgs # NoCall /\ fallbackArgs.difficulty = difficulty
           THEN count = fallbackArgs.count + 1
           ELSE count = 0
        /\ fallbackArgs' = [made |-> TRUE, difficulty |-> difficulty, count |-> count]
        /\ fallbackOut' = generateFallback(difficulty, count)
        /\ UNCHANGED <<sessionVars, conflictVars, carveVars, parseVars, mainVars>>

NextFallback == CallGenerateFallback

SpecFallback == Init /\ [][NextFallback]_vars

\* C14: generateFallback(d, n) returns n records; record k, from 0, has the
\* solution knownSolutions[k mod 3], the puzzle carve makes of it with the
\* blanks of d (easy 36, medium 46, hard 54) and the seed k + 11, which has
\* exactly that many blanks, and the id d-(k+1); the ids are distinct.
C14_FallbackRecords ==
    fallbackArgs # NoCall =>
        LET d == fallbackArgs.difficulty
            n == fallbackArgs.count
            blanks == IF d = "easy" THEN 36 ELSE IF d = "medium" THEN 46 ELSE 54
        IN  /\ Len(fallbackOut) = n
            /\ Cardinality({fallbackOut[k].id : k \in 1..n}) = n
            /\ \A k \in 0..(n - 1) :
                   LET record == fallbackOut[k + 1]
                       solution == knownSolutions[(k % 3) + 1]
                   IN  /\ record.id = d \o "-" \o ToString(k + 1)
                       /\ record.solution = solution
                       /\ record.puzzle = carve(solution, blanks, k + 11).out
                       /\ Cardinality({i \in 1..81 : record.puzzle[i] = "."}) = blanks

\* generateFallback("hard", 40) was called, and its last record is hard-40
\* with 54 blanks.
C14_Witness ==
    /\ fallbackArgs = [made |-> TRUE, difficulty |-> "hard", count |-> 40]
    /\ fallbackOut[40].id = "hard-40"
    /\ fallbackOut[40].solution = knownSolutions[1]
    /\ Cardinality({i \in 1..81 : fallbackOut[40].puzzle[i] = "."}) = 54

----------------------------------------------------------------------------
(* parseGrid: claim C16 *)

\* The string of the first call: a solution without its first digit.
ParseBase == [k \in 1..81 |-> IF k = 1 THEN "." ELSE knownSolutions[1][k]]

\* A call of parseGrid with the string of the last call changed in one
\* character, cut by its last character or extended by a character.
CallParseGrid ==
    \E g \in IF parseArg = <<>> THEN {ParseBase}
             ELSE {[parseArg EXCEPT ![k] = char] :
                       k \in ParsePositions \cap DOMAIN parseArg, char \in ParseChars}
                  \cup {SubSeq(parseArg, 1, Len(parseArg) - 1), Append(parseArg, "1")} :
        /\ Len(g) \in ParseLengths
        /\ g # parseArg
        /\ parseArg' = g
        /\ parseOut' = parseGrid(g)
        /\ UNCHANGED <<sessionVars, conflictVars, carveVars, fallbackVars, mainVars>>

NextParse == CallParseGrid

SpecParse == Init /\ [][NextParse]_vars

Alphabet == {".", "-", "0", "1", "2", "3", "4", "5", "6", "7", "8", "9"}

\* C16: parseGrid fails exactly when its string is not 81 characters long or
\* holds a character outside '.', '-', '0', '1' to '9'; otherwise it returns
\* 81 cells, cell i empty for '.', '-' or '0' at position i and the digit
\* written there otherwise.
C16_ParseGrid ==
    LET malformed ==
            \/ Len(parseArg) # 81
            \/ \E k \in 1..Len(parseArg) : parseArg[k] \notin Alphabet
    IN  /\ (parseOut = FormatError) <=> malformed
        /\ ~malformed =>
               /\ DOMAIN parseOut = 0..80
               /\ \A i \in 0..80 :
                      IF parseArg[i + 1] \in {".", "-", "0"}
                      THEN parseOut[i] = null
                      ELSE /\ parseOut[i] \in 1..9
                           /\ ToString(parseOut[i]) = parseArg[i + 1]

\* a string with the three blank characters and a digit at the changed
\* positions was parsed.
C16_Witness ==
    /\ Len(parseArg) = 81
    /\ parseArg[1] = "-"
    /\ parseArg[41] = "0"
    /\ parseArg[81] = "9"
    /\ parseOut # FormatError
    /\ parseOut[0] = null
    /\ parseOut[40] = null
    /\ parseOut[80] = 9

----------------------------------------------------------------------------
(* carve's shuffle: claim C17 *)

\* C17: the shuffle of carve leaves in indices a permutation of 0..80: the
\* array keeps its 81 elements, and every index is in it once.
C17_ShuffleIsPermutation ==
    carveArgs.made =>
        /\ DOMAIN carveIndices = 0..80
        /\ {carveIndices[i] : i \in DOMAIN carveIndices} = 0..80

----------------------------------------------------------------------------
(* computeConflicts' three loops: claim C18 *)

GroupTypes == {"row", "col", "box"}

\* The cell i holds a value that another cell of its group of the type holds.
DuplicateIn(type, i) ==
    /\ grid[i] # null
    /\ \E j \in Cells \ {i} :
           /\ grid[j] = grid[i]
           /\ IF type = "row" THEN i \div 9 = j \div 9
              ELSE IF type = "col" THEN i % 9 = j % 9
              ELSE /\ (i \div 9) \div 3 = (j \div 9) \div 3
                   /\ (i % 9) \div 3 = (j % 9) \div 3

\* C18, as claimed: no reported cell is marked by more than one of the three
\* group types.
C18_OneGroupType ==
    \A i \in conflicts :
        Cardinality({type \in GroupTypes : i \in markedBy[type]}) <= 1

\* C18, amended: a cell is marked by each group type in whose group another
\* cell holds its value, which may be several at once, and the cells
\* reported are the cells marked by at least one, each once.
C18_MarkedByEveryDuplicatingGroup ==
    /\ \A type \in GroupTypes :
           markedBy[type] = {i \in Cells : DuplicateIn(type, i)}
    /\ conflicts = UNION {markedBy[type] : type \in GroupTypes}
    /\ \A i \in conflicts :
           Cardinality({type \in GroupTypes : i \in markedBy[type]}) \in 1..3

\* cell 0 is marked by its row, its column and its box at once, and cell 10,
\* which shares only the box with it, by the box alone.
C18_Witness ==
    /\ \A type \in GroupTypes : 0 \in markedBy[type]
    /\ 10 \in markedBy["box"]
    /\ 10 \notin markedBy["row"] \cup markedBy["col"]
    /\ 10 \in conflicts

----------------------------------------------------------------------------
(* The history and the win: claims C19 and C20 *)

\* C19: a press of Erase or of the digit pad, or a key, that leaves entries
\* and notes as they are leaves the undo stack and the redo stack as they are.
C19_NoChangeNoHistory ==
    [][ ( /\ session # NullSession
          /\ session' # NullSession
          /\ lastOp'.name \in Edits
          /\ snapshotOf(session') = snapshotOf(session) )
        => /\ session'.undo = session.undo
           /\ session'.redo = session.redo ]_vars

\* C20: while the screen is 'won', every entry is the digit of the session
\* puzzle's solution.
C20_WonMeansSolved ==
    (screen = "won" /\ Live) =>
        \A i \in Cells :
            session.entries[i] = NumberOf(session.puzzle.solution[i + 1])

----------------------------------------------------------------------------
(* The frame of undo and redo: claim C21 *)

\* C21: undo and redo leave givens, the puzzle record, difficulty,
\* puzzleIndex, the selected cell, notesMode and elapsedSeconds as they are,
\* and the two stacks hold together as many snapshots after as before.
C21_UndoRedoFrame ==
    [][ ( /\ session # NullSession
          /\ lastOp'.name \in {"undo", "redo"} )
        => /\ session' # NullSession
           /\ session'.givens = session.givens
           /\ session'.puzzle = session.puzzle
           /\ session'.difficulty = session.difficulty
           /\ session'.puzzleIndex = session.puzzleIndex
           /\ session'.selected = session.selected
           /\ session'.notesMode = session.notesMode
           /\ session'.elapsedSeconds = session.elapsedSeconds
           /\ Len(session'.undo) + Len(session'.redo)
                  = Len(session.undo) + Len(session.redo) ]_vars

\* redo has just moved a snapshot from one stack to the other, in a session
\* with a cell selected, notes mode on and time on its clock.
C21_Witness ==
    /\ Live
    /\ lastOp.name = "redo"
    /\ Len(session.undo) > 0
    /\ Len(session.redo) > 0
    /\ session.selected # NoSelection
    /\ session.notesMode
    /\ session.elapsedSeconds > 0

====
